---------------------------- MODULE Spec2Model ----------------------------
(***************************************************************************)
(* A model of src/user/room.ts (class Room): the static instance pool      *)
(* (Room.load), the payload lifecycle (ready / sync / refresh / isReady)   *)
(* and the operations that delegate to the puppet (the provider).          *)
(*                                                                         *)
(* Callers are processes.  An async method runs synchronously up to its    *)
(* next `await`; a process's pc names the provider call it is suspended    *)
(* at.  One action = the provider completing that call (with a result or   *)
(* an exception) followed by the method's code up to the next await.       *)
(*                                                                         *)
(* The puppet and the Contact class are not part of room.ts: the puppet's  *)
(* payload cache, its calls' outcomes and Contact.load/ready/name are     *)
(* modelled from the specification.                                        *)
(***************************************************************************)
EXTENDS Naturals, Sequences, FiniteSets, TLC

(***************************************************************************)
(* Bounds of the model.                                                    *)
(***************************************************************************)
\* instances the heap may hold (Room.load allocates one per id)
MaxObj == 3
\* most ready() calls left in flight at a time by findAll calls that have
\* returned
MaxLeft == 1
\* most ready() calls on one contact left in flight at a time by callers
\* that have returned
MaxLeftContact == 2

Procs    == {"p1", "p2"}
RoomIds  == {"r1", "r2"}
SelfId   == "self"
ContactIds == {"self", "c1", "c2", "c3", "c4"}

\* JavaScript's undefined, where a string is expected
Undefined == "<undefined>"
\* a member-id list the provider does not have (roomMemberList gives undefined)
Absent == <<"<absent>">>
\* no payload in the puppet's cache
NoPayload == [topic |-> "<no payload>", memberIdList |-> <<>>]

VARIABLES
  pool,          \* Room.pool: room id -> instance (0: no entry)
  heap,          \* the instances constructed so far: heap[o] is instance o's id
  loaded,        \* history: every <<id, instance>> that Room.load has returned
  cache,         \* puppet: the cached room payload per id, or NoPayload
  rawTopic,      \* puppet: the room's topic on the provider's side
  members,       \* puppet: the member-id list per room, or Absent
  contactReady,  \* Contact: whether the contact's payload is ready
  pc,            \* per caller: where its running operation is suspended
  op,            \* per caller: the running operation and its arguments
  task,          \* per caller and room: the ready() call in flight on the room
  cand,          \* per caller: find()'s roomList (instances)
  ret,           \* per caller: the finished operation's result
  calls,         \* per caller: the puppet calls the running operation issued
  left,          \* the calls still in flight whose caller's Promise.all rejected
  hasPool        \* per class: whether the class has a static pool of its own

vars == <<pool, heap, loaded, cache, rawTopic, members, contactReady,
          pc, op, task, cand, ret, calls, left, hasPool>>

provider == <<cache, rawTopic, members, contactReady>>
registry == <<pool, heap, loaded, hasPool>>

(***************************************************************************)
(* Values.                                                                 *)
(***************************************************************************)
\* an operation and its arguments
MkOp(name, room, kind, form, items, str) ==
  [name |-> name, room |-> room, kind |-> kind, form |-> form,
   items |-> items, str |-> str]
NoOp == MkOp("none", "", "", "", <<>>, "")

\* a finished operation's result: a value (of the operation's type) or an error
Ok       == [st |-> "ok",  err |-> "", obj |-> 0, objs |-> <<>>, str |-> "", bool |-> FALSE]
Err(msg) == [Ok EXCEPT !.st = "err", !.err = msg]
NoRet    == [Ok EXCEPT !.st = "none"]

\* a puppet call as issued
Call(fn, room, ids, str, to) ==
  [fn |-> fn, room |-> room, ids |-> ids, str |-> str, to |-> to]

\* a ready() call on one room: the puppet call it is suspended at (pc), its
\* dirty argument, the member contacts whose ready() is pending, the call that
\* failed, and the puppet calls it issued.  was and intf are history: whether
\* the room was ready when the call began, and whether another call (another
\* caller's, or one left in flight by a findAll that has returned) changed
\* the room's cached payload since this call last read or wrote it.
NoTask == [pc |-> "none", dirty |-> FALSE, was |-> FALSE, pend |-> {},
           err |-> "", intf |-> FALSE, log |-> <<>>]
NoTasks == [id \in RoomIds |-> NoTask]

\* find()/findAll(): what roomSearch answered (got, ids), the rooms loaded for
\* it (list), whether Promise.all rejected (rej), and find's loop index n
NoCand == [list |-> <<>>, ids |-> <<>>, n |-> 0, got |-> "none", rej |-> FALSE]

\* the calls left in flight: per room the ready() calls suspended at
\* roomPayload and at roomMemberList, and per contact the ready() calls
\* nobody awaits any more; every call is counted, two calls on one contact
\* being two calls
NoLeft == [rooms |-> [id \in RoomIds |-> [payload |-> 0, members |-> 0]],
           contacts |-> [c \in ContactIds |-> 0]]

Range(s) == {s[i] : i \in 1..Len(s)}

(***************************************************************************)
(* Room.load and the constructor.                                          *)
(***************************************************************************)
\* the classes load is called on: Room itself, the class derived from it
\* that has a puppet, on which the operations of a bot are called, and a
\* class derived from it that has none
Classes == {"Room", "WechatyRoom", "UnboundRoom"}
BoundClass == "WechatyRoom"

\* the class whose static property this.pool reads on class cls: the class
\* itself when it has a pool of its own, else Room when Room has one, which
\* a derived class inherits; "none" when this.pool is undefined
PoolOwner(has, cls) ==
  IF has[cls] THEN cls ELSE IF has["Room"] THEN "Room" ELSE "none"

\* lines 196-198: if (!this.pool) this.pool = new Map() gives class cls a
\* pool of its own
EnsurePool(has, cls) ==
  IF PoolOwner(has, cls) = "none" THEN [has EXCEPT ![cls] = TRUE] ELSE has

\* a pool without entries
EmptyPool == [id \in RoomIds |-> 0]

\* the pool this.pool is on class cls, pl being the pool of the bound class:
\* the same pool when both classes read the same property, else a pool that
\* has no entries, since no other class constructs an instance
PoolSeen(has, pl, cls) ==
  IF PoolOwner(has, cls) = PoolOwner(has, BoundClass) THEN pl ELSE EmptyPool

\* this.pool.get(id): the instance bound to id, 0 (undefined) when none
PoolGetNoLookup(pl, id) == 0
PoolGet(pl, id) == pl[id]

\* Room.load(id) on pool pl and heap hp: the pool and heap afterwards and the
\* instance returned
Load(pl, hp, id) ==
  LET existingRoom == PoolGet(pl, id) IN
  IF existingRoom # 0
    THEN [pool |-> pl, heap |-> hp, obj |-> existingRoom]
    ELSE LET newRoom == Len(hp) + 1 IN
         [pool |-> [pl EXCEPT ![id] = newRoom],
          heap |-> Append(hp, id),
          obj  |-> newRoom]

\* roomIdList.map(id => this.load(id)): the loads of a list of ids, in order
RECURSIVE LoadAll(_, _, _)
LoadAll(pl, hp, ids) ==
  IF ids = <<>>
    THEN [pool |-> pl, heap |-> hp, objs |-> <<>>, pairs |-> {}]
    ELSE LET one  == Load(pl, hp, Head(ids))
             rest == LoadAll(one.pool, one.heap, Tail(ids))
         IN  [rest EXCEPT !.objs  = <<one.obj>> \o rest.objs,
                          !.pairs = rest.pairs \cup {<<Head(ids), one.obj>>}]

(***************************************************************************)
(* The payload accessor.                                                   *)
(***************************************************************************)
\* get payload(): the puppet's cached payload for this room
Payload(id) == IF id = "" THEN NoPayload ELSE cache[id]

\* isReady(): !!(this.payload)
IsReady(id) == Payload(id) # NoPayload

(***************************************************************************)
(* The puppet and the Contact class, as the specification describes them.  *)
(***************************************************************************)
\* the puppet's cache after a successful roomPayloadDirty(id): the
\* invalidate-cached-payload call
PuppetRoomPayloadDirty(id) == [cache EXCEPT ![id] = NoPayload]

\* the puppet's cache after a successful roomPayload(id): the
\* fetch-and-cache-payload call
PuppetRoomPayload(id) ==
  [cache EXCEPT ![id] = [topic |-> rawTopic[id], memberIdList |-> members[id]]]

\* Contact.load(id).name()
ContactName(c) ==
  CASE c = "self" -> "Bot"
    [] c = "c1" -> "Alice"
    [] c = "c2" -> "Bob"
    [] c = "c3" -> "Carol"
    [] c = "c4" -> "Dave"

\* the contacts of memberIdList whose ready() does not return at once: a
\* contact's ready() fetches its payload unless the contact is ready
Pending(memberIdList) == {c \in Range(memberIdList) : ~contactReady[c]}

(***************************************************************************)
(* ready(dirty): lines 270-291.                                            *)
(***************************************************************************)
\* ready(dirty) up to its first await: it returns at once on a ready room
\* when not dirty, and is otherwise suspended at roomPayloadDirty (dirty) or
\* at roomPayload
ReadyStartNoFetch(id, dirty) ==
  IF ~dirty
    THEN [NoTask EXCEPT !.pc = "done", !.was = IsReady(id)]
    ELSE [NoTask EXCEPT !.pc = "dirty", !.dirty = TRUE, !.was = IsReady(id),
                        !.log = <<Call("roomPayloadDirty", id, <<>>, "", "")>>]
ReadyStartSkipsPayload(id, dirty) ==
  IF ~dirty /\ IsReady(id)
    THEN [NoTask EXCEPT !.pc = "done", !.was = TRUE]
    ELSE IF dirty
      THEN [NoTask EXCEPT !.pc = "dirty", !.dirty = TRUE, !.was = IsReady(id),
                          !.log = <<Call("roomPayloadDirty", id, <<>>, "", "")>>]
      ELSE [NoTask EXCEPT !.pc = "members",
                          !.log = <<Call("roomMemberList", id, <<>>, "", "")>>]
ReadyStartNoInvalidate(id, dirty) ==
  IF ~dirty /\ IsReady(id)
    THEN [NoTask EXCEPT !.pc = "done", !.was = TRUE]
    ELSE [NoTask EXCEPT !.pc = "payload", !.dirty = dirty, !.was = IsReady(id),
                        !.log = <<Call("roomPayload", id, <<>>, "", "")>>]
ReadyStart(id, dirty) ==
  IF ~dirty /\ IsReady(id)
    THEN [NoTask EXCEPT !.pc = "done", !.was = TRUE]
    ELSE IF dirty
      THEN [NoTask EXCEPT !.pc = "dirty", !.dirty = TRUE, !.was = IsReady(id),
                          !.log = <<Call("roomPayloadDirty", id, <<>>, "", "")>>]
      ELSE [NoTask EXCEPT !.pc = "payload",
                          !.log = <<Call("roomPayload", id, <<>>, "", "")>>]

\* the ready() calls of the callers other than p on room id, marked when this
\* step changed the room's cached payload; p is "" for a step of a call left
\* in flight, which marks every caller's
Interfere(p, id, changed) ==
  [q \in Procs |->
     IF q # p /\ changed /\ task[q][id].pc # "none"
       THEN [task[q] EXCEPT ![id].intf = TRUE]
       ELSE task[q]]

\* what the caller of findAll gets when findAll returns roomList: findAll's
\* own caller gets the list; find (lines 152-170) returns null for an empty
\* list and otherwise asks the puppet to validate the first room
FindAllReturn(p, roomList, c) ==
  IF op[p].name = "findAll"
    THEN [pc |-> "done", ret |-> [Ok EXCEPT !.objs = roomList],
          cand |-> c, calls |-> calls[p]]
    ELSE IF Len(roomList) < 1
      THEN [pc |-> "done", ret |-> Ok, cand |-> c, calls |-> calls[p]]
      ELSE [pc |-> "validate", ret |-> NoRet, cand |-> [c EXCEPT !.n = 1],
            calls |-> Append(calls[p],
                       Call("roomValidate", heap[roomList[1]], <<>>, "", ""))]

\* findAll's catch (lines 127-131): whatever was thrown, return []
FindAllRethrow(p, c) ==
  [pc |-> "done", ret |-> Err("rejected"), cand |-> c, calls |-> calls[p]]
FindAllCatch(p, c) == FindAllReturn(p, <<>>, c)

\* a Promise.all that rejects cancels nothing (lines 123, 286-290): of the
\* ready() calls tp of one caller, those suspended at roomPayload or at
\* roomMemberList, and the contacts' ready() calls still pending, stay in
\* flight beside the calls lf left earlier
LeftOver(lf, tp) ==
  [rooms |-> [id \in RoomIds |->
                [payload |-> lf.rooms[id].payload + (IF tp[id].pc = "payload" THEN 1 ELSE 0),
                 members |-> lf.rooms[id].members + (IF tp[id].pc = "members" THEN 1 ELSE 0)]],
   contacts |-> [c \in ContactIds |->
                   lf.contacts[c] + Cardinality({id \in RoomIds : c \in tp[id].pend})]]

\* the number of ready() calls on rooms left in flight
RECURSIVE LeftSum(_, _)
LeftSum(lf, ids) ==
  IF ids = {} THEN 0
  ELSE LET id == CHOOSE x \in ids : TRUE IN
       lf.rooms[id].payload + lf.rooms[id].members + LeftSum(lf, ids \ {id})
LeftCount(lf) == LeftSum(lf, RoomIds)

\* the calls left in flight are within the bounds of the model
LeftBounded(lf) ==
  /\ LeftCount(lf) <= MaxLeft
  /\ \A c \in ContactIds : lf.contacts[c] <= MaxLeftContact

\* the caller's continuation once its ready() calls stand as tp: ready, sync
\* and refresh end with their call; findAll's Promise.all (line 123) rejects
\* with the first failure, which findAll catches (lines 127-131), and
\* resolves when every call has ended.  The calls still in flight when a
\* Promise.all rejects go on without the caller.
Settle(p, tp) ==
  LET same == [pc |-> pc[p], ret |-> ret[p], cand |-> cand[p],
               calls |-> calls[p], task |-> tp, left |-> left] IN
  IF pc[p] = "ready"
    THEN LET t == tp[op[p].room] IN
         IF t.pc = "done"
           THEN [same EXCEPT !.pc = "done", !.ret = Ok, !.calls = t.log,
                             !.task = NoTasks]
         ELSE IF t.pc = "failed"
           THEN [same EXCEPT !.pc = "done", !.ret = Err(t.err), !.calls = t.log,
                             !.task = NoTasks, !.left = LeftOver(left, tp)]
         ELSE same
    ELSE IF pc[p] = "fanout"
      THEN LET ids == Range(cand[p].ids) IN
           IF \E id \in ids : tp[id].pc = "failed"
             THEN LET r == FindAllCatch(p, [cand[p] EXCEPT !.rej = TRUE]) IN
                  [pc |-> r.pc, ret |-> r.ret, cand |-> r.cand, calls |-> r.calls,
                   task |-> NoTasks, left |-> LeftOver(left, tp)]
           ELSE IF \A id \in ids : tp[id].pc = "done"
             THEN LET r == FindAllReturn(p, cand[p].list, cand[p]) IN
                  [pc |-> r.pc, ret |-> r.ret, cand |-> r.cand, calls |-> r.calls,
                   task |-> NoTasks, left |-> left]
             ELSE same
      ELSE same

\* one step of caller p's ready() on room id: its call becomes t, the puppet's
\* cache becomes c
ReadyStep(p, id, t, c) ==
  LET tk == Interfere(p, id, c # cache)
      s  == Settle(p, [tk[p] EXCEPT ![id] = t])
  IN  /\ LeftBounded(s.left)
      /\ cache' = c
      /\ task'  = [tk EXCEPT ![p] = s.task]
      /\ pc'    = [pc EXCEPT ![p] = s.pc]
      /\ ret'   = [ret EXCEPT ![p] = s.ret]
      /\ cand'  = [cand EXCEPT ![p] = s.cand]
      /\ calls' = [calls EXCEPT ![p] = s.calls]
      /\ left'  = s.left

\* await this.puppet.roomPayloadDirty(this.id) ends (line 280)
ReadyDirtyDone(p, id) ==
  /\ task[p][id].pc = "dirty"
  /\ \E ok \in BOOLEAN :
       IF ok
         THEN ReadyStep(p, id,
                [task[p][id] EXCEPT !.pc = "payload", !.intf = FALSE,
                   !.log = Append(@, Call("roomPayload", id, <<>>, "", ""))],
                PuppetRoomPayloadDirty(id))
         ELSE ReadyStep(p, id,
                [task[p][id] EXCEPT !.pc = "failed", !.err = "roomPayloadDirty"],
                cache)
  /\ UNCHANGED <<registry, rawTopic, members, contactReady, op>>

\* await this.puppet.roomPayload(this.id) ends (line 282)
ReadyPayloadDone(p, id) ==
  /\ task[p][id].pc = "payload"
  /\ \E ok \in BOOLEAN :
       IF ok
         THEN ReadyStep(p, id,
                [task[p][id] EXCEPT !.pc = "members", !.intf = FALSE,
                   !.log = Append(@, Call("roomMemberList", id, <<>>, "", ""))],
                PuppetRoomPayload(id))
         ELSE ReadyStep(p, id,
                [task[p][id] EXCEPT !.pc = "failed", !.err = "roomPayload"],
                cache)
  /\ UNCHANGED <<registry, rawTopic, members, contactReady, op>>

\* lines 286-290: the member ids whose contact's ready() the Promise.all of
\* ready() awaits: every id of memberIdList
AwaitedMembersFirst(memberIdList) ==
  IF memberIdList = <<>> THEN <<>> ELSE <<memberIdList[1]>>
AwaitedMembers(memberIdList) == memberIdList

\* await this.puppet.roomMemberList(this.id) ends (line 284) and every
\* member's contact is loaded and its ready() called (lines 286-290)
ReadyMembersDone(p, id) ==
  /\ task[p][id].pc = "members"
  /\ \E ok \in BOOLEAN :
       LET t == task[p][id] IN
       IF ok /\ members[id] # Absent
         THEN ReadyStep(p, id,
                [t EXCEPT !.pc = IF Pending(AwaitedMembers(members[id])) = {}
                                   THEN "done" ELSE "contacts",
                          !.pend = Pending(AwaitedMembers(members[id]))],
                cache)
         ELSE ReadyStep(p, id,
                [t EXCEPT !.pc = "failed",
                          !.err = IF ok THEN "TypeError" ELSE "roomMemberList"],
                cache)
  /\ UNCHANGED <<registry, rawTopic, members, contactReady, op>>

\* contact.ready() of one member ends (line 289)
ReadyContactDone(p, id, c) ==
  /\ task[p][id].pc = "contacts"
  /\ c \in task[p][id].pend
  /\ \E ok \in BOOLEAN :
       LET t == task[p][id] IN
       IF ok
         THEN /\ ReadyStep(p, id,
                   [t EXCEPT !.pc = IF t.pend = {c} THEN "done" ELSE "contacts",
                             !.pend = t.pend \ {c}],
                   cache)
              /\ contactReady' = [contactReady EXCEPT ![c] = TRUE]
         ELSE /\ ReadyStep(p, id,
                   [t EXCEPT !.pc = "failed", !.pend = t.pend \ {c}, !.err = "contactReady"],
                   cache)
              /\ UNCHANGED contactReady
  /\ UNCHANGED <<registry, rawTopic, members, op>>

\* room.ready(dirty), room.sync() (line 789: ready(true)) or room.refresh()
\* (line 780: sync()) is called on the instance bound to id
ReadyCall(p, name, id, dirty) ==
  /\ pc[p] = "idle"
  /\ pool[id] # 0
  /\ name \in {"sync", "refresh"} => dirty
  /\ LET t == ReadyStart(id, dirty) IN
     /\ op'   = [op EXCEPT ![p] = MkOp(name, id, "", "", <<>>, "")]
     /\ IF t.pc = "done"
          THEN /\ pc'  = [pc EXCEPT ![p] = "done"]
               /\ ret' = [ret EXCEPT ![p] = Ok]
               /\ UNCHANGED task
          ELSE /\ pc'  = [pc EXCEPT ![p] = "ready"]
               /\ ret' = [ret EXCEPT ![p] = NoRet]
               /\ task' = [task EXCEPT ![p][id] = t]
  /\ UNCHANGED <<registry, provider, cand, calls, left>>

(***************************************************************************)
(* The calls left in flight by a Promise.all that rejected: they go on as  *)
(* ready() does, with nobody awaiting them.                                *)
(***************************************************************************)
\* a left ready() on room id: await this.puppet.roomPayload(this.id) ends
\* (line 282)
LeftPayloadDone(id) ==
  /\ left.rooms[id].payload > 0
  /\ \E ok \in BOOLEAN :
       IF ok
         THEN /\ cache' = PuppetRoomPayload(id)
              /\ task'  = Interfere("", id, PuppetRoomPayload(id) # cache)
              /\ left'  = [left EXCEPT !.rooms[id].payload = @ - 1,
                                       !.rooms[id].members = @ + 1]
         ELSE /\ left' = [left EXCEPT !.rooms[id].payload = @ - 1]
              /\ UNCHANGED <<cache, task>>
  /\ UNCHANGED <<registry, rawTopic, members, contactReady, pc, op, cand, ret, calls>>

\* a left ready() on room id: await this.puppet.roomMemberList(this.id) ends
\* (line 284) and every member's contact is loaded and its ready() called
\* (lines 286-290)
LeftMembersDone(id) ==
  /\ left.rooms[id].members > 0
  /\ \E ok \in BOOLEAN :
       IF ok /\ members[id] # Absent
         THEN left' = [left EXCEPT !.rooms[id].members = @ - 1,
                         !.contacts = [c \in ContactIds |->
                            @[c] + IF c \in Pending(AwaitedMembers(members[id]))
                                     THEN 1 ELSE 0]]
         ELSE left' = [left EXCEPT !.rooms[id].members = @ - 1]
  /\ LeftBounded(left')
  /\ UNCHANGED <<registry, provider, pc, op, task, cand, ret, calls>>

\* one left contact.ready() of contact c ends (line 289); the other calls
\* left on the contact stay in flight
LeftContactDone(c) ==
  /\ left.contacts[c] > 0
  /\ left' = [left EXCEPT !.contacts[c] = @ - 1]
  /\ \/ contactReady' = [contactReady EXCEPT ![c] = TRUE]
     \/ UNCHANGED contactReady
  /\ UNCHANGED <<registry, cache, rawTopic, members, pc, op, task, cand, ret, calls>>

(***************************************************************************)
(* The static operations: load, create, findAll, find.                     *)
(***************************************************************************)
\* Room.load(id) is called (lines 192-210); it has no await
LoadCall(id) ==
  LET l == Load(pool, heap, id) IN
  /\ Len(l.heap) <= MaxObj
  /\ pool' = l.pool
  /\ heap' = l.heap
  /\ loaded' = loaded \cup {<<id, l.obj>>}
  /\ hasPool' = EnsurePool(hasPool, BoundClass)
  /\ UNCHANGED <<provider, pc, op, task, cand, ret, calls, left>>

\* the contactList arguments of create: undefined, a string (not a list, no
\* join method), an object with a join method that is no array, and arrays
\* of contacts
ContactLists ==
  { [kind |-> "undefined", items |-> <<>>],
    [kind |-> "string",    items |-> <<>>],
    [kind |-> "arraylike", items |-> <<>>],
    [kind |-> "array",     items |-> <<>>],
    [kind |-> "array",     items |-> <<"c1", "c2">>] }

\* contactList.join(',') in the log call of line 82 throws a TypeError on a
\* value that has no join method
HasJoin(cl) == cl.kind \in {"arraylike", "array"}

\* line 84: !contactList || !Array.isArray(contactList)
ContactListInvalid(cl) == cl.kind = "undefined" \/ cl.kind # "array"

\* Room.create(contactList, topic) is called (lines 81-90)
CreateCall(p, cl, topic) ==
  /\ pc[p] = "idle"
  /\ op' = [op EXCEPT ![p] = MkOp("create", "", cl.kind, "", cl.items, topic)]
  /\ IF ~HasJoin(cl)
       THEN /\ pc'  = [pc EXCEPT ![p] = "done"]
            /\ ret' = [ret EXCEPT ![p] = Err("TypeError")]
            /\ UNCHANGED calls
       ELSE IF ContactListInvalid(cl)
         THEN /\ pc'  = [pc EXCEPT ![p] = "done"]
              /\ ret' = [ret EXCEPT ![p] = Err("contactList not found")]
              /\ UNCHANGED calls
         ELSE /\ pc'  = [pc EXCEPT ![p] = "create"]
              /\ ret' = [ret EXCEPT ![p] = NoRet]
              /\ calls' = [calls EXCEPT ![p] =
                             Append(@, Call("roomCreate", "", cl.items, topic, ""))]
  /\ UNCHANGED <<registry, provider, task, cand, left>>

\* await this.puppet.roomCreate(...) ends and the new room is loaded
\* (lines 90-97)
CreateDone(p) ==
  /\ pc[p] = "create"
  /\ \/ \E roomId \in RoomIds :
          LET l == Load(pool, heap, roomId) IN
          /\ Len(l.heap) <= MaxObj
          /\ pool' = l.pool
          /\ heap' = l.heap
          /\ loaded' = loaded \cup {<<roomId, l.obj>>}
          /\ hasPool' = EnsurePool(hasPool, BoundClass)
          /\ ret' = [ret EXCEPT ![p] = [Ok EXCEPT !.obj = l.obj]]
     \/ /\ ret' = [ret EXCEPT ![p] = Err("roomCreate")]
        /\ UNCHANGED registry
  /\ pc' = [pc EXCEPT ![p] = "done"]
  /\ UNCHANGED <<provider, op, task, cand, calls, left>>

\* the query arguments of findAll and find: none (findAll's default
\* { topic: /.*/ }), a topic string (find only), or a filter whose topic is a
\* string, the empty string, or missing
Queries ==
  { [form |-> "none",   topic |-> Undefined],
    [form |-> "string", topic |-> "wechaty"],
    [form |-> "string", topic |-> ""],
    [form |-> "filter", topic |-> "wechaty"],
    [form |-> "filter", topic |-> ""],
    [form |-> "filter", topic |-> Undefined] }

\* the topic of the filter findAll works on: that of its default (line 112),
\* of find's { topic: query } for a string (lines 148-150), or of the filter
QueryTopic(name, q) ==
  IF name = "findAll" /\ q.form = "none" THEN "/.*/" ELSE q.topic

\* line 116: query.topic is truthy
HasTopic(topic) == topic # Undefined /\ topic # ""

\* the room-id lists roomSearch answers with
RoomLists == {<<>>, <<"r1">>, <<"r2">>, <<"r1", "r2">>, <<"r2", "r1">>}

\* Room.findAll(query) or Room.find(query) is called (lines 110-121, 142-152)
FindCall(p, name, q) ==
  /\ pc[p] = "idle"
  /\ name \in {"findAll", "find"}
  /\ name = "findAll" => q.form # "string"
  /\ name = "find" => q.form # "none"
  /\ op' = [op EXCEPT ![p] = MkOp(name, "", "", "", <<>>, QueryTopic(name, q))]
  /\ IF ~HasTopic(QueryTopic(name, q))
       THEN /\ pc'  = [pc EXCEPT ![p] = "done"]
            /\ ret' = [ret EXCEPT ![p] = Err("topicFilter not found")]
            /\ UNCHANGED calls
       ELSE /\ pc'  = [pc EXCEPT ![p] = "search"]
            /\ ret' = [ret EXCEPT ![p] = NoRet]
            /\ calls' = [calls EXCEPT ![p] =
                 Append(@, Call("roomSearch", "", <<>>, QueryTopic(name, q), ""))]
  /\ UNCHANGED <<registry, provider, task, cand, left>>

\* await this.puppet.roomSearch(query) ends (line 121); the rooms are loaded
\* and ready() is called on each (lines 122-123)
SearchDone(p) ==
  /\ pc[p] = "search"
  /\ \/ \E roomIdList \in RoomLists :
          LET l  == LoadAll(pool, heap, roomIdList)
              tp == [id \in RoomIds |->
                       IF id \in Range(roomIdList) THEN ReadyStart(id, FALSE)
                       ELSE NoTask]
              c  == [NoCand EXCEPT !.list = l.objs, !.ids = roomIdList, !.got = "list"]
              done == \A id \in Range(roomIdList) : tp[id].pc = "done"
              s  == IF done
                      THEN FindAllReturn(p, l.objs, c)
                      ELSE [pc |-> "fanout", ret |-> NoRet, cand |-> c,
                            calls |-> calls[p]]
          IN  /\ Len(l.heap) <= MaxObj
              /\ pool' = l.pool
              /\ heap' = l.heap
              /\ loaded' = loaded \cup l.pairs
              /\ hasPool' = IF roomIdList = <<>> THEN hasPool
                            ELSE EnsurePool(hasPool, BoundClass)
              /\ task' = [task EXCEPT ![p] = IF done THEN NoTasks ELSE tp]
              /\ pc'   = [pc EXCEPT ![p] = s.pc]
              /\ ret'  = [ret EXCEPT ![p] = s.ret]
              /\ cand' = [cand EXCEPT ![p] = s.cand]
              /\ calls' = [calls EXCEPT ![p] = s.calls]
     \/ LET s == FindAllCatch(p, [NoCand EXCEPT !.got = "throw"]) IN
        /\ pc'   = [pc EXCEPT ![p] = s.pc]
        /\ ret'  = [ret EXCEPT ![p] = s.ret]
        /\ cand' = [cand EXCEPT ![p] = s.cand]
        /\ UNCHANGED <<registry, task, calls>>
  /\ UNCHANGED <<provider, op, left>>

\* lines 165-185: one turn of find's loop, room n of roomList having been
\* answered valid or not: return the room, go on to room n + 1, or return
\* null after the last one
FindLoopIgnoresValid(roomList, n, valid) ==
  [next |-> 0, ret |-> [Ok EXCEPT !.obj = roomList[n]]]
FindLoop(roomList, n, valid) ==
  IF valid THEN [next |-> 0, ret |-> [Ok EXCEPT !.obj = roomList[n]]]
  ELSE IF n + 1 <= Len(roomList) THEN [next |-> n + 1, ret |-> NoRet]
  ELSE [next |-> 0, ret |-> Ok]

\* line 170: find awaits roomValidate outside any try, so what the puppet
\* throws rejects find
ValidateSwallowed(e) == Ok
ValidateThrown(e) == Err(e)

\* the log of puppet calls with the answer to its last call noted
Answered(log, answer) == [log EXCEPT ![Len(log)].to = answer]

\* await this.puppet.roomValidate(room.id) ends (lines 170-185)
ValidateDone(p) ==
  /\ pc[p] = "validate"
  /\ LET roomList == cand[p].list
         n == cand[p].n
     IN \/ \E valid \in BOOLEAN :
             LET l == FindLoop(roomList, n, valid)
                 log == Answered(calls[p], IF valid THEN "true" ELSE "false")
             IN IF l.next = 0
                  THEN /\ pc'  = [pc EXCEPT ![p] = "done"]
                       /\ ret' = [ret EXCEPT ![p] = l.ret]
                       /\ calls' = [calls EXCEPT ![p] = log]
                       /\ UNCHANGED cand
                  ELSE /\ cand' = [cand EXCEPT ![p].n = l.next]
                       /\ calls' = [calls EXCEPT ![p] =
                            Append(log, Call("roomValidate", heap[roomList[l.next]],
                                             <<>>, "", ""))]
                       /\ UNCHANGED <<pc, ret>>
        \/ /\ pc'  = [pc EXCEPT ![p] = "done"]
           /\ ret' = [ret EXCEPT ![p] = ValidateThrown("roomValidate")]
           /\ calls' = [calls EXCEPT ![p] = Answered(calls[p], "throw")]
           /\ UNCHANGED cand
  /\ UNCHANGED <<registry, provider, op, task, left>>

\* the caller has its result and goes on
Return(p) ==
  /\ pc[p] = "done"
  /\ pc'    = [pc EXCEPT ![p] = "idle"]
  /\ op'    = [op EXCEPT ![p] = NoOp]
  /\ ret'   = [ret EXCEPT ![p] = NoRet]
  /\ cand'  = [cand EXCEPT ![p] = NoCand]
  /\ calls' = [calls EXCEPT ![p] = <<>>]
  /\ UNCHANGED <<registry, provider, task, left>>

(***************************************************************************)
(* The state after construction: nothing loaded, nothing cached, room r1   *)
(* with the members memberIdList, room r2 without members, and the         *)
(* contacts notReady not ready.                                            *)
(***************************************************************************)
InitWith(memberIdList, notReady) ==
  /\ pool = [id \in RoomIds |-> 0]
  /\ heap = <<>>
  /\ loaded = {}
  /\ cache = [id \in RoomIds |-> NoPayload]
  /\ rawTopic = [id \in RoomIds |-> "wechaty"]
  /\ members = [id \in RoomIds |-> IF id = "r1" THEN memberIdList ELSE <<>>]
  /\ contactReady = [c \in ContactIds |-> c \notin notReady]
  /\ pc = [p \in Procs |-> "idle"]
  /\ op = [p \in Procs |-> NoOp]
  /\ task = [p \in Procs |-> NoTasks]
  /\ cand = [p \in Procs |-> NoCand]
  /\ ret = [p \in Procs |-> NoRet]
  /\ calls = [p \in Procs |-> <<>>]
  /\ left = NoLeft
  /\ hasPool = [cls \in Classes |-> FALSE]

(***************************************************************************)
(* The payload lifecycle under concurrent callers: caller p1 runs findAll  *)
(* and ready(dirty) on either room, caller p2 forces resyncs of room r1    *)
(* beside it, and the calls left in flight go on.                          *)
(***************************************************************************)
Init == InitWith(<<"c2", "c1">>, {"c1"})

\* the operations each caller runs
Runs(p, name) ==
  \/ p = "p1" /\ name \in {"findAll", "ready"}
  \/ p = "p2" /\ name = "sync"

\* the rooms each caller calls ready, sync and refresh on
RunsOn(p, id) == p = "p1" \/ id = "r1"

Next ==
  \/ \E id \in RoomIds : LoadCall(id)
  \/ \E p \in Procs, q \in Queries :
       Runs(p, "findAll") /\ q.form = "filter" /\ FindCall(p, "findAll", q)
  \/ \E p \in Procs : SearchDone(p)
  \/ \E p \in Procs, name \in {"ready", "sync"}, id \in RoomIds, dirty \in BOOLEAN :
       Runs(p, name) /\ RunsOn(p, id) /\ ReadyCall(p, name, id, dirty)
  \/ \E p \in Procs, id \in RoomIds : ReadyDirtyDone(p, id)
  \/ \E p \in Procs, id \in RoomIds : ReadyPayloadDone(p, id)
  \/ \E p \in Procs, id \in RoomIds : ReadyMembersDone(p, id)
  \/ \E p \in Procs, id \in RoomIds, c \in ContactIds : ReadyContactDone(p, id, c)
  \/ \E id \in RoomIds : LeftPayloadDone(id)
  \/ \E id \in RoomIds : LeftMembersDone(id)
  \/ \E c \in ContactIds : LeftContactDone(c)
  \/ \E p \in Procs : Return(p)

Spec == Init /\ [][Next]_vars

(***************************************************************************)
(* The registry under concurrent callers of the static operations: caller  *)
(* p1 runs create, findAll and find, caller p2 creates rooms beside it,    *)
(* and load is called at any time.                                         *)
(***************************************************************************)
InitReady == InitWith(<<"c1", "c2">>, {"c1", "c2"})

RunsStatic(p, name) == p = "p1" \/ name = "create"

NextStatic ==
  \/ \E id \in RoomIds : LoadCall(id)
  \/ \E p \in Procs, cl \in ContactLists :
       RunsStatic(p, "create") /\ CreateCall(p, cl, "ding")
  \/ \E p \in Procs : CreateDone(p)
  \/ \E p \in Procs, name \in {"findAll", "find"}, q \in Queries :
       RunsStatic(p, name) /\ FindCall(p, name, q)
  \/ \E p \in Procs : SearchDone(p)
  \/ \E p \in Procs : ValidateDone(p)
  \/ \E p \in Procs, id \in RoomIds : ReadyPayloadDone(p, id)
  \/ \E p \in Procs, id \in RoomIds : ReadyMembersDone(p, id)
  \/ \E p \in Procs, id \in RoomIds, c \in ContactIds : ReadyContactDone(p, id, c)
  \/ \E id \in RoomIds : LeftPayloadDone(id)
  \/ \E id \in RoomIds : LeftMembersDone(id)
  \/ \E c \in ContactIds : LeftContactDone(c)
  \/ \E p \in Procs : Return(p)

SpecStatic == InitReady /\ [][NextStatic]_vars

(***************************************************************************)
(* ready(dirty), sync() and refresh() of two callers on rooms whose        *)
(* members are not ready: caller p1 runs ready(dirty) and refresh() on     *)
(* either room, caller p2 sync() on room r1.                               *)
(***************************************************************************)
RunsReady(p, name) ==
  \/ p = "p1" /\ name \in {"ready", "refresh"}
  \/ p = "p2" /\ name = "sync"

NextReady ==
  \/ \E id \in RoomIds : LoadCall(id)
  \/ \E p \in Procs, name \in {"ready", "sync", "refresh"}, id \in RoomIds, dirty \in BOOLEAN :
       RunsReady(p, name) /\ RunsOn(p, id) /\ ReadyCall(p, name, id, dirty)
  \/ \E p \in Procs, id \in RoomIds : ReadyDirtyDone(p, id)
  \/ \E p \in Procs, id \in RoomIds : ReadyPayloadDone(p, id)
  \/ \E p \in Procs, id \in RoomIds : ReadyMembersDone(p, id)
  \/ \E p \in Procs, id \in RoomIds, c \in ContactIds : ReadyContactDone(p, id, c)
  \/ \E c \in ContactIds : LeftContactDone(c)
  \/ \E p \in Procs : Return(p)

SpecReady == InitReady /\ [][NextReady]_vars

(***************************************************************************)
(* The instance operations topic, say and has.                             *)
(***************************************************************************)
\* line 557: the default topic names at most this many members
TopicNames == 3

\* lines 556-559: the first member's name, then ',' and the name of each
\* further member while i < 3 and memberList[i] exists; i counts from 0
RECURSIVE TopicLoop(_, _, _)
TopicLoop(memberList, i, defaultTopic) ==
  IF i < TopicNames /\ i + 1 <= Len(memberList)
    THEN TopicLoop(memberList, i + 1,
                   defaultTopic \o "," \o ContactName(memberList[i + 1]))
    ELSE defaultTopic

\* lines 552-554: the member ids without the bot's own
NotSelf(c) == c # SelfId
NonSelf(memberIdList) == SelectSeq(memberIdList, NotSelf)

\* lines 551-560: the default topic of a room whose payload has none; an
\* error when the member list is undefined or no member is left, since
\* memberIdList.filter and memberList[0].name() then throw a TypeError
DefaultTopic(memberIdList) ==
  IF memberIdList = Absent THEN Err("TypeError")
  ELSE LET memberList == NonSelf(memberIdList) IN
       IF Len(memberList) = 0 THEN Err("TypeError")
       ELSE [Ok EXCEPT !.str = TopicLoop(memberList, 1, ContactName(memberList[1]))]

\* line 542: topic() throws 'not ready' on a room that is not ready
TopicUnguarded(id) == FALSE
TopicNotReady(id) == ~IsReady(id)

\* room.topic(newTopic) is called (lines 540-565); newTopic is Undefined in
\* the read form
TopicCall(p, id, newTopic) ==
  /\ pc[p] = "idle"
  /\ pool[id] # 0
  /\ op' = [op EXCEPT ![p] = MkOp("topic", id, "", "", <<>>, newTopic)]
  /\ IF TopicNotReady(id)
       THEN /\ pc'  = [pc EXCEPT ![p] = "done"]
            /\ ret' = [ret EXCEPT ![p] = Err("not ready")]
            /\ UNCHANGED calls
       ELSE IF newTopic = Undefined
         THEN IF Payload(id) # NoPayload /\ Payload(id).topic # ""
                THEN /\ pc'  = [pc EXCEPT ![p] = "done"]
                     /\ ret' = [ret EXCEPT ![p] = [Ok EXCEPT !.str = Payload(id).topic]]
                     /\ UNCHANGED calls
                ELSE /\ pc'  = [pc EXCEPT ![p] = "topicMembers"]
                     /\ ret' = [ret EXCEPT ![p] = NoRet]
                     /\ calls' = [calls EXCEPT ![p] =
                          Append(@, Call("roomMemberList", id, <<>>, "", ""))]
         ELSE /\ pc'  = [pc EXCEPT ![p] = "topicSet"]
              /\ ret' = [ret EXCEPT ![p] = NoRet]
              /\ calls' = [calls EXCEPT ![p] =
                   Append(@, Call("roomTopic", id, <<>>, newTopic, ""))]
  /\ UNCHANGED <<registry, provider, task, cand, left>>

\* await this.puppet.roomMemberList(this.id) ends in the read form
\* (lines 551-560)
TopicMembersDone(p) ==
  /\ pc[p] = "topicMembers"
  /\ \/ ret' = [ret EXCEPT ![p] = DefaultTopic(members[op[p].room])]
     \/ ret' = [ret EXCEPT ![p] = Err("roomMemberList")]
  /\ pc' = [pc EXCEPT ![p] = "done"]
  /\ UNCHANGED <<registry, provider, op, task, cand, calls, left>>

\* lines 566-571: the rename's failure is logged by the catch handler, and
\* the promise topic() returns resolves
RenameRethrown(e) == Err(e)
RenameCaught(e) == Ok

\* the puppet's roomTopic(id, newTopic) ends (lines 564-573)
TopicSetDone(p) ==
  /\ pc[p] = "topicSet"
  /\ \/ /\ rawTopic' = [rawTopic EXCEPT ![op[p].room] = op[p].str]
        /\ ret' = [ret EXCEPT ![p] = Ok]
     \/ /\ ret' = [ret EXCEPT ![p] = RenameCaught("roomTopic")]
        /\ UNCHANGED rawTopic
  /\ pc' = [pc EXCEPT ![p] = "done"]
  /\ UNCHANGED <<registry, cache, members, contactReady, op, task, cand, calls, left>>

\* line 344: String.fromCharCode(8197), written here in ASCII
AT_SEPRATOR == "\\u2005"

\* line 339: [].concat(mention || []); mention is undefined ("none"), one
\* contact ("one") or a list of contacts ("list")
ReplyToList(form, mention) == IF form = "none" THEN <<>> ELSE mention

\* line 345: replyToList.map(c => '@' + c.name()).join(AT_SEPRATOR)
RECURSIVE MentionList(_)
MentionList(replyToList) ==
  IF replyToList = <<>> THEN ""
  ELSE IF Len(replyToList) = 1 THEN "@" \o ContactName(replyToList[1])
  ELSE "@" \o ContactName(replyToList[1]) \o AT_SEPRATOR \o MentionList(Tail(replyToList))

\* lines 343-349: the text sent
SayTextNoSpace(text, replyToList) ==
  IF Len(replyToList) > 0 THEN MentionList(replyToList) \o text ELSE text
SayText(text, replyToList) ==
  IF Len(replyToList) > 0 THEN MentionList(replyToList) \o " " \o text ELSE text

\* line 352: replyToList.length && replyToList[0].id || undefined
SayContactIdLast(replyToList) ==
  IF Len(replyToList) > 0 THEN replyToList[Len(replyToList)] ELSE Undefined
SayContactId(replyToList) ==
  IF Len(replyToList) > 0 /\ replyToList[1] # "" THEN replyToList[1] ELSE Undefined

\* the mention arguments of say
Mentions ==
  { [form |-> "none", items |-> <<>>],
    [form |-> "one",  items |-> <<"c1">>],
    [form |-> "list", items |-> <<>>],
    [form |-> "list", items |-> <<"c2">>],
    [form |-> "list", items |-> <<"c2", "c1">>],
    [form |-> "list", items |-> <<"c3", "c1", "c2">>] }

\* room.say(textOrContactOrFile, mention) is called (lines 327-365); kind is
\* the content's type: a string, a FileBox, a Contact or something else
SayCall(p, id, kind, text, m) ==
  /\ pc[p] = "idle"
  /\ pool[id] # 0
  /\ op' = [op EXCEPT ![p] = MkOp("say", id, kind, m.form, m.items, text)]
  /\ LET replyToList == ReplyToList(m.form, m.items) IN
     IF kind = "text"
       THEN /\ pc'  = [pc EXCEPT ![p] = "say"]
            /\ ret' = [ret EXCEPT ![p] = NoRet]
            /\ calls' = [calls EXCEPT ![p] =
                 Append(@, Call("messageSendText", id, <<>>,
                                SayText(text, replyToList), SayContactId(replyToList)))]
       ELSE IF kind = "file"
         THEN /\ pc'  = [pc EXCEPT ![p] = "say"]
              /\ ret' = [ret EXCEPT ![p] = NoRet]
              /\ calls' = [calls EXCEPT ![p] =
                   Append(@, Call("messageSendFile", id, <<>>, text, ""))]
       ELSE IF kind = "contact"
         THEN /\ pc'  = [pc EXCEPT ![p] = "say"]
              /\ ret' = [ret EXCEPT ![p] = NoRet]
              /\ calls' = [calls EXCEPT ![p] =
                   Append(@, Call("messageSendContact", id, <<text>>, "", ""))]
       ELSE /\ pc'  = [pc EXCEPT ![p] = "done"]
            /\ ret' = [ret EXCEPT ![p] = Err("arg unsupported")]
            /\ UNCHANGED calls
  /\ UNCHANGED <<registry, provider, task, cand, left>>

\* the puppet's messageSend... call ends
SayDone(p) ==
  /\ pc[p] = "say"
  /\ \/ ret' = [ret EXCEPT ![p] = Ok]
     \/ ret' = [ret EXCEPT ![p] = Err("messageSend")]
  /\ pc' = [pc EXCEPT ![p] = "done"]
  /\ UNCHANGED <<registry, provider, op, task, cand, calls, left>>

\* lines 653-659: false for an undefined list, else whether some id of the
\* list is the contact's
HasMemberAny(memberIdList, c) == memberIdList # Absent /\ Len(memberIdList) > 0
HasMember(memberIdList, c) ==
  IF memberIdList = Absent THEN FALSE
  ELSE Len(SelectSeq(memberIdList, LAMBDA id : id = c)) > 0

\* room.has(contact) is called (lines 650-651)
HasCall(p, id, c) ==
  /\ pc[p] = "idle"
  /\ pool[id] # 0
  /\ op' = [op EXCEPT ![p] = MkOp("has", id, "", "", <<c>>, "")]
  /\ pc'  = [pc EXCEPT ![p] = "has"]
  /\ ret' = [ret EXCEPT ![p] = NoRet]
  /\ calls' = [calls EXCEPT ![p] = Append(@, Call("roomMemberList", id, <<>>, "", ""))]
  /\ UNCHANGED <<registry, provider, task, cand, left>>

\* await this.puppet.roomMemberList(this.id) ends in has (lines 651-659)
HasDone(p) ==
  /\ pc[p] = "has"
  /\ \/ ret' = [ret EXCEPT ![p] =
                  [Ok EXCEPT !.bool = HasMember(members[op[p].room], op[p].items[1])]]
     \/ ret' = [ret EXCEPT ![p] = Err("roomMemberList")]
  /\ pc' = [pc EXCEPT ![p] = "done"]
  /\ UNCHANGED <<registry, provider, op, task, cand, calls, left>>

(***************************************************************************)
(* One caller running the instance operations of room r1, while the        *)
(* provider's member list of the room changes.                             *)
(***************************************************************************)
\* the member-id lists the provider reports
MemberLists ==
  { Absent, <<>>, <<"self">>, <<"c1">>, <<"c1", "self", "c2">>,
    <<"c3", "c2", "c1">>, <<"self", "c2", "c1", "c4", "c3">>,
    <<"c4", "c3", "c2", "c1">> }

\* the provider's member list of the room changes
MembersChange(id, memberIdList) ==
  /\ members[id] # memberIdList
  /\ members' = [members EXCEPT ![id] = memberIdList]
  /\ UNCHANGED <<registry, cache, rawTopic, contactReady, pc, op, task, cand, ret, calls, left>>

InitRoom ==
  /\ pool = [id \in RoomIds |-> 0]
  /\ heap = <<>>
  /\ loaded = {}
  /\ cache = [id \in RoomIds |-> NoPayload]
  /\ rawTopic \in {[id \in RoomIds |-> t] : t \in {"", "wechaty"}}
  /\ members \in {[id \in RoomIds |-> IF id = "r1" THEN l ELSE <<>>] : l \in MemberLists}
  /\ contactReady = [c \in ContactIds |-> c # "c1"]
  /\ pc = [p \in Procs |-> "idle"]
  /\ op = [p \in Procs |-> NoOp]
  /\ task = [p \in Procs |-> NoTasks]
  /\ cand = [p \in Procs |-> NoCand]
  /\ ret = [p \in Procs |-> NoRet]
  /\ calls = [p \in Procs |-> <<>>]
  /\ left = NoLeft
  /\ hasPool = [cls \in Classes |-> FALSE]

NextRoom ==
  \/ LoadCall("r1")
  \/ \E dirty \in BOOLEAN : ReadyCall("p1", IF dirty THEN "sync" ELSE "ready", "r1", dirty)
  \/ ReadyDirtyDone("p1", "r1")
  \/ ReadyPayloadDone("p1", "r1")
  \/ ReadyMembersDone("p1", "r1")
  \/ \E c \in ContactIds : ReadyContactDone("p1", "r1", c)
  \/ \E newTopic \in {Undefined, "ding"} : TopicCall("p1", "r1", newTopic)
  \/ TopicMembersDone("p1")
  \/ TopicSetDone("p1")
  \/ \E kind \in {"text", "file", "contact", "other"}, text \in {"hi", ""}, m \in Mentions :
       /\ kind # "text" => (text = "hi" /\ m.form = "none")
       /\ SayCall("p1", "r1", kind, IF kind = "contact" THEN "c1" ELSE text, m)
  \/ SayDone("p1")
  \/ \E c \in {"c1", "c3"} : HasCall("p1", "r1", c)
  \/ HasDone("p1")
  \/ \E l \in MemberLists : MembersChange("r1", l)
  \/ Return("p1")

SpecRoom == InitRoom /\ [][NextRoom]_vars

(***************************************************************************)
(* The constructor guard: load called on the base class Room, on the class *)
(* derived from it with a puppet, and on a derived class without one.      *)
(***************************************************************************)
\* lines 231-248: the constructor throws when the class is Room itself
\* (lines 240-242) and when this.puppet is not set (lines 244-246)
ConstructorNoPuppetCheck(cls) ==
  IF cls = "Room" THEN Err("Room class can not be instanciated directly!") ELSE Ok
Constructor(cls) ==
  IF cls = "Room" THEN Err("Room class can not be instanciated directly!")
  ELSE IF cls # BoundClass THEN Err("Room class can not be instanciated without a puppet!")
  ELSE Ok

\* Room.load(id) called on class cls (lines 192-210), has telling which
\* classes have a pool of their own, pl being the bound class's pool and hp
\* the heap: the pool is created if this.pool is undefined, then the lookup,
\* and for an id without an entry the construction, whose error leaves load
\* before this.pool.set(id, newRoom)
LoadOn(cls, has, pl, hp, id) ==
  LET has2 == EnsurePool(has, cls)
      existingRoom == PoolGet(PoolSeen(has2, pl, cls), id)
  IN
  IF existingRoom # 0
    THEN [hasPool |-> has2, pool |-> pl, heap |-> hp,
          ret |-> [Ok EXCEPT !.obj = existingRoom]]
    ELSE LET made == Constructor(cls) IN
         IF made.st = "err"
           THEN [hasPool |-> has2, pool |-> pl, heap |-> hp, ret |-> made]
           ELSE LET l == Load(pl, hp, id) IN
                [hasPool |-> has2, pool |-> l.pool, heap |-> l.heap,
                 ret |-> [Ok EXCEPT !.obj = l.obj]]

\* caller p calls load(id) on class cls; load has no await
LoadOnCall(p, cls, id) ==
  LET l == LoadOn(cls, hasPool, pool, heap, id) IN
  /\ pc[p] = "idle"
  /\ Len(l.heap) <= MaxObj
  /\ op'  = [op EXCEPT ![p] = MkOp("load", id, cls, "", <<>>, "")]
  /\ pc'  = [pc EXCEPT ![p] = "done"]
  /\ ret' = [ret EXCEPT ![p] = l.ret]
  /\ hasPool' = l.hasPool
  /\ pool' = l.pool
  /\ heap' = l.heap
  /\ loaded' = IF l.ret.st = "ok" THEN loaded \cup {<<id, l.ret.obj>>} ELSE loaded
  /\ UNCHANGED <<provider, task, cand, calls, left>>

NextLoad ==
  \/ \E p \in Procs, cls \in Classes, id \in RoomIds : LoadOnCall(p, cls, id)
  \/ \E p \in Procs : Return(p)

SpecLoad == Init /\ [][NextLoad]_vars

(***************************************************************************)
(* Claims.                                                                 *)
(***************************************************************************)
ReadyNames == {"ready", "sync", "refresh"}

\* caller p's ready(), sync() or refresh() ends in this step
ReadyEnds(p) ==
  /\ pc[p] \in {"idle", "ready"}
  /\ pc'[p] = "done"
  /\ op'[p].name \in ReadyNames

\* the ready() call of caller p that ends in this step, as it stood before
ReadyTask(p) == task[p][op'[p].room]

\* isReady() of the room bound to id, after this step
ReadyAfter(id) == cache'[id] # NoPayload

\* caller p's forced resync of room id invalidates the cached payload in this
\* step
Invalidates(p, id) == task[p][id].pc = "dirty" /\ task'[p][id].pc = "payload"

\* some caller's payload fetch for room id succeeds in this step
FetchSucceeds(id) ==
  \/ \E q \in Procs : task[q][id].pc = "payload" /\ task'[q][id].pc = "members"
  \/ left'.rooms[id].members > left.rooms[id].members

\* C1: registry uniqueness.  Under every interleaving of load, create, findAll
\* and find, all loads of one id returned the same instance and loads of
\* different ids returned different instances; no id is bound to two
\* instances, and the pool holds the instance constructed for the id.
C1_RegistryUnique ==
  /\ \A a, b \in loaded : (a[1] = b[1]) <=> (a[2] = b[2])
  /\ \A i, j \in 1..Len(heap) : heap[i] = heap[j] => i = j
  /\ \A id \in RoomIds : pool[id] # 0 => heap[pool[id]] = id
  /\ \A a \in loaded : pool[a[1]] = a[2]

\* both ids are loaded while one caller is suspended in findAll's fan-out and
\* the other at create's provider call
C1_Witness ==
  /\ Cardinality(loaded) = 2
  /\ pc["p1"] = "fanout"
  /\ pc["p2"] = "create"

\* C2 as stated: whenever ready() (or sync() or refresh()) completes
\* successfully, isReady() is true right after; and once a forced resync has
\* invalidated the payload, isReady() is false and turns true only by a
\* successful fetch.
C2_Original ==
  [][\A p \in Procs :
       /\ (ReadyEnds(p) /\ ret'[p].st = "ok") => ReadyAfter(op'[p].room)
       /\ \A id \in RoomIds : Invalidates(p, id) => ~ReadyAfter(id)
       /\ \A id \in RoomIds : (~IsReady(id) /\ ReadyAfter(id)) => FetchSucceeds(id)
    ]_vars

\* C2 as amended: whenever ready() (or sync() or refresh()) completes
\* successfully and no other call (another caller's, or a ready() left in
\* flight by a findAll that has returned) changed the room's cached payload
\* after this call last read or wrote it, isReady() is true right after; the
\* rest as stated.
C2_ReadyAfterReady ==
  [][\A p \in Procs :
       /\ (ReadyEnds(p) /\ ret'[p].st = "ok" /\ ~ReadyTask(p).intf)
            => ReadyAfter(op'[p].room)
       /\ \A id \in RoomIds : Invalidates(p, id) => ~ReadyAfter(id)
       /\ \A id \in RoomIds : (~IsReady(id) /\ ReadyAfter(id)) => FetchSucceeds(id)
    ]_vars

\* a forced resync of a room that was ready has ended successfully and the
\* room is ready
C2_Witness ==
  \E p \in Procs :
    /\ pc[p] = "done" /\ op[p].name = "sync" /\ ret[p].st = "ok"
    /\ Len(calls[p]) = 3
    /\ IsReady(op[p].room)

\* C3 as stated: a ready() on an unfetched room that rejects because the
\* payload fetch, the member-id-list lookup or a member's fetch failed hands
\* the provider's exception to the caller and leaves isReady() false.
C3_Original ==
  [][\A p \in Procs :
       (ReadyEnds(p) /\ ~ReadyTask(p).was /\ ret'[p].st = "err"
          /\ ReadyTask(p).pc \in {"payload", "members", "contacts"})
         => /\ ret'[p].err \in {"roomPayload", "roomMemberList", "TypeError", "contactReady"}
            /\ ~ReadyAfter(op'[p].room)
    ]_vars

\* C3 as amended: the exception reaches the caller; isReady() is still false
\* when it was the payload fetch that failed, and is true when the member-id
\* list lookup or a member's fetch failed, the payload being cached by then
\* (for a call during which no other call, another caller's or one left in
\* flight, changed the room's cached payload after this call last read or
\* wrote it).
C3_FailedFetch ==
  [][\A p \in Procs :
       (ReadyEnds(p) /\ ~ReadyTask(p).was /\ ret'[p].st = "err"
          /\ ReadyTask(p).pc \in {"payload", "members", "contacts"})
         => /\ ret'[p].err \in {"roomPayload", "roomMemberList", "TypeError", "contactReady"}
            /\ ~ReadyTask(p).intf =>
                 (ReadyAfter(op'[p].room) <=> ReadyTask(p).pc # "payload")
    ]_vars

\* a ready() on an unfetched room has rejected with a member's failure and
\* the room is ready
C3_Witness ==
  \E p \in Procs :
    /\ pc[p] = "done" /\ op[p].name = "ready" /\ ret[p].err = "contactReady"
    /\ Len(calls[p]) = 2
    /\ IsReady(op[p].room)

\* the same with the payload fetch failing: the room is not ready
C3_WitnessFetch ==
  \E p \in Procs :
    /\ pc[p] = "done" /\ op[p].name = "ready" /\ ret[p].err = "roomPayload"
    /\ ~IsReady(op[p].room)

\* C4: create with a missing, non-list or empty contactList raises an error,
\* calls no roomCreate and adds nothing to the pool.
C4_Original ==
  /\ [](\A p \in Procs :
         (op[p].name = "create" /\ (op[p].kind # "array" \/ op[p].items = <<>>))
           => /\ pc[p] = "done"
              /\ ret[p].st = "err"
              /\ calls[p] = <<>>)
  /\ [][\A p \in Procs :
          (pc[p] = "idle" /\ op'[p].name = "create"
             /\ (op'[p].kind # "array" \/ op'[p].items = <<>>))
            => pool' = pool]_vars

\* findAll, called with a filter that has a topic, has ended for caller p
FindAllDone(p) ==
  pc[p] = "done" /\ op[p].name = "findAll" /\ HasTopic(op[p].str)

\* caller p's findAll ends in this step
FindAllEnds(p) ==
  pc[p] \in {"search", "fanout"} /\ pc'[p] = "done" /\ op[p].name = "findAll"

\* findAll never rejects: it resolves to [] when roomSearch threw or a
\* ready() failed, and otherwise to the instances bound to the ids roomSearch
\* answered, in that order
FindAllResult(p) ==
  /\ ret[p].st = "ok"
  /\ (cand[p].got = "throw" \/ cand[p].rej) => ret[p].objs = <<>>
  /\ (cand[p].got = "list" /\ ~cand[p].rej) =>
       /\ Len(ret[p].objs) = Len(cand[p].ids)
       /\ \A i \in 1..Len(cand[p].ids) :
            /\ heap[ret[p].objs[i]] = cand[p].ids[i]
            /\ pool[cand[p].ids[i]] = ret[p].objs[i]

\* C5 as stated: for a filter with a topic, findAll resolves to [] and never
\* rejects when roomSearch throws or a room's ready() fails; when nothing
\* fails it resolves to the instances for exactly the ids the provider
\* answered, in its order, each with isReady() true.
C5_Original ==
  /\ [](\A p \in Procs : FindAllDone(p) => FindAllResult(p))
  /\ [][\A p \in Procs :
          (FindAllEnds(p) /\ cand'[p].got = "list" /\ ~cand'[p].rej)
            => \A id \in Range(cand'[p].ids) : ReadyAfter(id)]_vars

\* C5 as amended: the same, isReady() being true of each room whose cached
\* payload no other call, another caller's or one left in flight, changed
\* after findAll's ready() of that room last read or wrote it.
C5_FindAllFailSafe ==
  /\ [](\A p \in Procs : FindAllDone(p) => FindAllResult(p))
  /\ [][\A p \in Procs :
          (FindAllEnds(p) /\ cand'[p].got = "list" /\ ~cand'[p].rej)
            => \A id \in Range(cand'[p].ids) :
                 ~task[p][id].intf => ReadyAfter(id)]_vars

\* findAll has resolved to both rooms, in the provider's order, both ready
C5_Witness ==
  \E p \in Procs :
    /\ FindAllDone(p) /\ cand[p].ids = <<"r2", "r1">> /\ Len(ret[p].objs) = 2
    /\ \A id \in RoomIds : IsReady(id)

\* findAll has resolved to [] after a room's ready() failed
C5_WitnessRejected ==
  \E p \in Procs :
    FindAllDone(p) /\ cand[p].rej /\ Len(cand[p].ids) = 2 /\ ret[p].objs = <<>>


\* topic(...) is called by p in this step
TopicCalled(p) == pc[p] = "idle" /\ pc'[p] # "idle" /\ op'[p].name = "topic"

\* the call of topic(...) in this step raised 'not ready' and called nothing
RaisesNotReady(p) ==
  /\ pc'[p] = "done"
  /\ ret'[p].st = "err" /\ ret'[p].err = "not ready"
  /\ calls'[p] = <<>>

\* C6 as stated: topic(newTopic) on a room that is not ready raises
\* NotReady without a rename call, and the read form topic() is not subject
\* to the readiness precondition.
C6_Original ==
  [][\A p \in Procs :
       (TopicCalled(p) /\ ~IsReady(op'[p].room)) =>
          IF op'[p].str # Undefined THEN RaisesNotReady(p)
          ELSE ~(ret'[p].st = "err" /\ ret'[p].err = "not ready")]_vars

\* C6: topic(newTopic) and the read form topic() both raise NotReady on a
\* room whose isReady() is false, and neither then calls the provider: no
\* rename and no member-list lookup; on a ready room neither raises NotReady.
C6_TopicNeedsReady ==
  [][\A p \in Procs :
       TopicCalled(p) =>
          IF ~IsReady(op'[p].room) THEN RaisesNotReady(p)
          ELSE /\ ~(ret'[p].st = "err" /\ ret'[p].err = "not ready")
               /\ (op'[p].str # Undefined) =>
                     (pc'[p] = "topicSet" /\ Len(calls'[p]) = 1)]_vars

C6_Witness ==
  /\ pc["p1"] = "done" /\ op["p1"].name = "topic" /\ op["p1"].str = "ding"
  /\ ret["p1"].st = "err" /\ ret["p1"].err = "not ready"
  /\ ~IsReady("r1") /\ calls["p1"] = <<>>

C6_WitnessRead ==
  /\ pc["p1"] = "done" /\ op["p1"].name = "topic" /\ op["p1"].str = Undefined
  /\ ret["p1"].st = "err" /\ ret["p1"].err = "not ready"
  /\ ~IsReady("r1") /\ calls["p1"] = <<>>

\* C7: on a ready room topic(newTopic) makes exactly one rename call, for
\* this room's id and the new topic; whether the rename succeeds or fails
\* topic(newTopic) completes without an error, and the step that completes
\* it leaves the room's readiness and the registry as they were.
C7_TopicSetBestEffort ==
  /\ [](\A p \in Procs :
          (op[p].name = "topic" /\ op[p].str # Undefined /\ pc[p] \in {"topicSet", "done"}
             /\ ~(ret[p].st = "err" /\ ret[p].err = "not ready")) =>
            /\ calls[p] = <<Call("roomTopic", op[p].room, <<>>, op[p].str, "")>>
            /\ pc[p] = "done" => ret[p] = Ok)
  /\ [][\A p \in Procs :
          (pc[p] = "topicSet" /\ pc'[p] = "done") =>
            /\ ret'[p] = Ok
            /\ cache' = cache /\ registry' = registry
            /\ pool'[op[p].room] = pool[op[p].room] /\ pool[op[p].room] # 0
            /\ IsReady(op[p].room)]_vars

\* the rename failed (the provider's topic is not the new one) and topic()
\* completed without an error
C7_Witness ==
  /\ pc["p1"] = "done" /\ op["p1"].name = "topic" /\ op["p1"].str = "ding"
  /\ ret["p1"] = Ok
  /\ rawTopic["r1"] # "ding"
  /\ IsReady("r1") /\ pool["r1"] # 0

\* the names of the first n members of a list, joined by ","
RECURSIVE JoinNames(_, _)
JoinNames(memberList, n) ==
  IF n = 0 \/ memberList = <<>> THEN ""
  ELSE IF n = 1 \/ Len(memberList) = 1 THEN ContactName(memberList[1])
  ELSE ContactName(memberList[1]) \o "," \o JoinNames(Tail(memberList), n - 1)

\* the read form of topic() completes its member lookup in this step, and
\* the provider answered with a list
TopicGetEnds(p) ==
  /\ pc[p] = "topicMembers" /\ pc'[p] = "done"
  /\ members[op[p].room] # Absent
  /\ ~(ret'[p].st = "err" /\ ret'[p].err = "roomMemberList")

\* C8 as stated: on a ready room whose payload has no topic, topic() returns
\* the names of the first min(3, k) non-self members joined by ",", k being
\* the number of non-self members, k = 0 included.
C8_Original ==
  [][\A p \in Procs :
       TopicGetEnds(p) =>
         /\ ret'[p].st = "ok"
         /\ ret'[p].str = JoinNames(NonSelf(members[op[p].room]), TopicNames)]_vars

\* the same for k >= 1 only
C8_DefaultTopicSomeMember ==
  [][\A p \in Procs :
       (TopicGetEnds(p) /\ Len(NonSelf(members[op[p].room])) >= 1) =>
         /\ ret'[p].st = "ok"
         /\ ret'[p].str = JoinNames(NonSelf(members[op[p].room]), TopicNames)]_vars

C8_WitnessNoMember ==
  /\ pc["p1"] = "done" /\ op["p1"].name = "topic" /\ op["p1"].str = Undefined
  /\ ret["p1"].st = "err" /\ ret["p1"].err = "TypeError"
  /\ members["r1"] = <<"self">>

C8_WitnessFour ==
  /\ pc["p1"] = "done" /\ op["p1"].name = "topic" /\ op["p1"].str = Undefined
  /\ ret["p1"].st = "ok" /\ ret["p1"].str = "Bob,Alice,Dave"
  /\ members["r1"] = <<"self", "c2", "c1", "c4", "c3">>

\* "@" and the name of each mentioned contact, in order, with U+2005
\* between them
RECURSIVE AtNames(_)
AtNames(mention) ==
  IF mention = <<>> THEN ""
  ELSE "@" \o ContactName(Head(mention)) \o
       (IF Tail(mention) = <<>> THEN "" ELSE "\\u2005" \o AtNames(Tail(mention)))

\* C9: say(text, mention) with a string and a non-empty mention makes
\* exactly one send-text call whose text is the "@name" of each mention in
\* order joined by U+2005, one space, and the original text, and whose
\* receiver carries the first mention's id with the room id; with no mention
\* the one call has the text unchanged, the room id and no contact id.
C9_MentionedSay ==
  \A p \in Procs :
    (op[p].name = "say" /\ op[p].kind = "text" /\ pc[p] \in {"say", "done"}) =>
      LET mention == IF op[p].form = "none" THEN <<>> ELSE op[p].items IN
      /\ Len(calls[p]) = 1
      /\ calls[p][1].fn = "messageSendText"
      /\ calls[p][1].room = op[p].room
      /\ IF mention # <<>>
           THEN /\ calls[p][1].str = AtNames(mention) \o " " \o op[p].str
                /\ calls[p][1].to = mention[1]
           ELSE /\ calls[p][1].str = op[p].str
                /\ calls[p][1].to = Undefined

C9_Witness ==
  /\ pc["p1"] = "done" /\ op["p1"].name = "say" /\ op["p1"].kind = "text"
  /\ op["p1"].items = <<"c3", "c1", "c2">> /\ op["p1"].str = "hi"
  /\ calls["p1"][1].str = "@Carol\\u2005@Alice\\u2005@Bob hi"
  /\ calls["p1"][1].to = "c3"
  /\ ret["p1"] = Ok

C9_WitnessNoMention ==
  /\ pc["p1"] = "done" /\ op["p1"].name = "say" /\ op["p1"].kind = "text"
  /\ op["p1"].form = "none" /\ op["p1"].str = "hi"
  /\ calls["p1"][1].str = "hi" /\ calls["p1"][1].to = Undefined

\* C10: has(contact) asks the provider for the room's member ids and
\* returns true exactly when the contact's id is in the list the provider
\* has at that moment, false when the provider has no list; the cached
\* payload is not consulted and the call needs no readiness.
C10_HasMembership ==
  /\ [][\A p \in Procs :
          (pc[p] = "has" /\ pc'[p] = "done" /\ ret'[p].st = "ok") =>
            ret'[p].bool = (/\ members[op[p].room] # Absent
                            /\ \E i \in 1..Len(members[op[p].room]) :
                                 members[op[p].room][i] = op[p].items[1])]_vars
  /\ [](\A p \in Procs :
          (op[p].name = "has" /\ pc[p] \in {"has", "done"}) =>
             calls[p] = <<Call("roomMemberList", op[p].room, <<>>, "", "")>>)

\* has answered from the provider's list, which by then differed from the
\* list in the room's cached payload
C10_Witness ==
  /\ pc["p1"] = "done" /\ op["p1"].name = "has" /\ op["p1"].items = <<"c3">>
  /\ ret["p1"].st = "ok" /\ ret["p1"].bool
  /\ IsReady("r1") /\ cache["r1"].memberIdList = <<"c1">>
  /\ members["r1"] = <<"c3", "c2", "c1">>

C10_WitnessUnfetched ==
  /\ pc["p1"] = "done" /\ op["p1"].name = "has"
  /\ ret["p1"].st = "ok" /\ ~ret["p1"].bool
  /\ ~IsReady("r1") /\ members["r1"] = Absent


\* caller p calls load(id) on a class in this step
LoadCalled(p) == pc[p] = "idle" /\ pc'[p] = "done" /\ op'[p].name = "load"

\* the entry for id in the pool of class cls after this step
EntryAfter(cls, id) == PoolSeen(hasPool', pool', cls)[id]

\* C11: when load has to construct an instance, its class's registry having
\* no entry for the id, and the class is Room itself or has no puppet, load
\* raises the constructor's error and that registry is left without an entry
\* for the id, as is every other; on the derived class with a puppet load
\* returns the new instance, registered under the id. Every entry of a
\* registry is an instance whose construction succeeded.
C11_ConstructionGuard ==
  /\ [][\A p \in Procs :
          LoadCalled(p) =>
            LET cls == op'[p].kind
                id  == op'[p].room
                entry == PoolSeen(EnsurePool(hasPool, cls), pool, cls)[id]
            IN  IF entry # 0
                  THEN ret'[p] = [Ok EXCEPT !.obj = entry] /\ pool' = pool /\ heap' = heap
                ELSE IF cls # BoundClass
                  THEN /\ ret'[p].st = "err"
                       /\ ret'[p].err =
                            IF cls = "Room"
                              THEN "Room class can not be instanciated directly!"
                              ELSE "Room class can not be instanciated without a puppet!"
                       /\ pool' = pool /\ heap' = heap /\ loaded' = loaded
                       /\ EntryAfter(cls, id) = 0
                  ELSE /\ ret'[p].st = "ok"
                       /\ EntryAfter(cls, id) = ret'[p].obj
                       /\ heap'[ret'[p].obj] = id /\ Len(heap') = Len(heap) + 1]_vars
  /\ [](\A id \in RoomIds :
          pool[id] # 0 => (pool[id] \in 1..Len(heap) /\ heap[pool[id]] = id
                            /\ <<id, pool[id]>> \in loaded))

\* load of r1 on the derived class without a puppet failed although the
\* bound class has an instance for r1 in its own pool
C11_Witness ==
  /\ pc["p1"] = "done" /\ op["p1"].name = "load" /\ op["p1"].room = "r1"
  /\ op["p1"].kind = "UnboundRoom"
  /\ ret["p1"].st = "err"
  /\ pool["r1"] # 0 /\ hasPool[BoundClass]
  /\ PoolSeen(hasPool, pool, "UnboundRoom")["r1"] = 0

\* load on Room itself failed
C11_WitnessBase ==
  /\ pc["p2"] = "done" /\ op["p2"].name = "load" /\ op["p2"].kind = "Room"
  /\ ret["p2"].err = "Room class can not be instanciated directly!"
  /\ PoolSeen(hasPool, pool, "Room")[op["p2"].room] = 0

\* Room created the pool first, the derived classes share it, and load on
\* Room itself returned the instance the bound class constructed
C11_WitnessShared ==
  /\ pc["p2"] = "done" /\ op["p2"].name = "load" /\ op["p2"].kind = "Room"
  /\ ret["p2"].st = "ok" /\ ret["p2"].obj = pool[op["p2"].room]
  /\ ~hasPool[BoundClass]

\* the roomValidate calls in a log of puppet calls, in order
Validations(log) == SelectSeq(log, LAMBDA c : c.fn = "roomValidate")

\* the rooms findAll returned to find: the rooms of the search, or none
\* when findAll caught a failure
FoundByFindAll(p) ==
  IF cand[p].got = "list" /\ ~cand[p].rej THEN cand[p].list ELSE <<>>

\* C12: when find(filter) has returned, its validation calls are for the
\* rooms findAll returned, one each, in that order, up to and including the
\* first the provider answered true for; find returns that room and
\* validates none after it; it returns none when findAll returned no rooms
\* or when the provider answered false for every one of them.
C12_FindFirstValid ==
  \A p \in Procs :
    (op[p].name = "find" /\ pc[p] = "done" /\ ret[p].st = "ok") =>
      LET roomList == FoundByFindAll(p)
          v == Validations(calls[p])
      IN  /\ Len(v) <= Len(roomList)
          /\ \A i \in 1..Len(v) : v[i].room = heap[roomList[i]]
          /\ \A i \in 1..(Len(v) - 1) : v[i].to = "false"
          /\ IF Len(v) > 0 /\ v[Len(v)].to = "true"
               THEN ret[p].obj = roomList[Len(v)]
               ELSE /\ ret[p].obj = 0
                    /\ Len(v) = Len(roomList)
                    /\ \A i \in 1..Len(v) : v[i].to = "false"

\* find returned the second of two rooms, the first having been answered
\* invalid
C12_Witness ==
  /\ op["p1"].name = "find" /\ pc["p1"] = "done" /\ ret["p1"].st = "ok"
  /\ Len(cand["p1"].list) = 2
  /\ ret["p1"].obj = cand["p1"].list[2]
  /\ Len(Validations(calls["p1"])) = 2

\* find returned the first of two rooms and did not validate the second
C12_WitnessFirst ==
  /\ op["p1"].name = "find" /\ pc["p1"] = "done" /\ ret["p1"].st = "ok"
  /\ Len(cand["p1"].list) = 2
  /\ ret["p1"].obj = cand["p1"].list[1]
  /\ Len(Validations(calls["p1"])) = 1

\* find returned none, both rooms having been answered invalid
C12_WitnessNone ==
  /\ op["p1"].name = "find" /\ pc["p1"] = "done" /\ ret["p1"] = Ok
  /\ Len(cand["p1"].list) = 2
  /\ Len(Validations(calls["p1"])) = 2


\* find has ended
FindDone(p) == op[p].name = "find" /\ pc[p] = "done"

\* the puppet failed in the search of find's findAll, or in the readying of
\* a room the search found
SearchFailed(p) == cand[p].got = "throw" \/ cand[p].rej

\* the puppet failed in a validation of find
ValidationFailed(p) ==
  \E i \in 1..Len(calls[p]) : calls[p][i].fn = "roomValidate" /\ calls[p][i].to = "throw"

\* C13 as stated: a provider failure during find(filter), in the room
\* search or in the validation of a candidate, rejects find; find never
\* answers none after a provider failure.
C13_Original ==
  \A p \in Procs :
    (FindDone(p) /\ (SearchFailed(p) \/ ValidationFailed(p))) => ret[p].st = "err"

\* C13: a provider failure in the existence validation of a candidate
\* rejects find with that failure; a provider failure in the room search, or
\* in the readying of a room found, is caught by findAll, and find then
\* returns none without validating anything. find is rejected only by a
\* validation failure or for a filter without a topic.
C13_FindPropagatesValidation ==
  \A p \in Procs :
    FindDone(p) =>
      /\ ValidationFailed(p) => (ret[p].st = "err" /\ ret[p].err = "roomValidate")
      /\ SearchFailed(p) => (ret[p] = Ok /\ Validations(calls[p]) = <<>>)
      /\ ret[p].st = "err" =>
           \/ ValidationFailed(p) /\ ~SearchFailed(p)
           \/ ret[p].err = "topicFilter not found" /\ calls[p] = <<>>

\* the second validation failed and find was rejected
C13_Witness ==
  /\ FindDone("p1") /\ ValidationFailed("p1")
  /\ Len(Validations(calls["p1"])) = 2
  /\ ret["p1"].st = "err"

\* the search failed and find returned none
C13_WitnessSearch ==
  /\ FindDone("p1") /\ cand["p1"].got = "throw" /\ ret["p1"] = Ok


\* every member of room id, as the provider lists them, is ready after this
\* step
MembersReadyAfter(id) == \A c \in Range(members'[id]) : contactReady'[c]

\* caller p's ready(), sync() or refresh() ends in this step while the
\* ready() of a member's contact it awaited has not made the contact ready:
\* that member's ready() failed
MemberFails(p) ==
  /\ pc[p] = "ready" /\ pc'[p] = "done"
  /\ task[p][op[p].room].pc = "contacts"
  /\ \E c \in task[p][op[p].room].pend : ~contactReady'[c]

\* C14 as stated: whenever ready() on a room completes successfully, with
\* dirty false or true and whatever the room's readiness before the call,
\* every member in the provider's member-id list of the room is ready; and
\* if the ready() of a member fails, the room's ready() fails.
C14_Original ==
  [][\A p \in Procs :
       /\ (ReadyEnds(p) /\ ret'[p].st = "ok") => MembersReadyAfter(op'[p].room)
       /\ MemberFails(p) => (pc'[p] = "done" /\ ret'[p].st = "err")]_vars

\* C14: whenever a ready() that looked the members up completes
\* successfully, that is ready(true), sync(), refresh(), or ready(false)
\* called on a room whose isReady() was false, every member in the
\* provider's member-id list of the room is ready; ready(false) on a room
\* that is ready returns at once, whatever its members' state.  If the
\* ready() of a member fails, the room's ready() fails with that failure.
C14_TransitiveReadiness ==
  [][\A p \in Procs :
       /\ (ReadyEnds(p) /\ ret'[p].st = "ok" /\ pc[p] = "ready") =>
             MembersReadyAfter(op'[p].room)
       /\ (ReadyEnds(p) /\ pc[p] = "idle") =>
             (ret'[p] = Ok /\ IsReady(op'[p].room) /\ op'[p].name = "ready"
                /\ contactReady' = contactReady /\ calls'[p] = <<>>)
       /\ MemberFails(p) =>
             (pc'[p] = "done" /\ ret'[p].st = "err" /\ ret'[p].err = "contactReady")]_vars

\* a ready() that fetched the payload of r1 and readied both its members has
\* ended successfully
C14_Witness ==
  /\ pc["p1"] = "done" /\ op["p1"].name = "ready" /\ op["p1"].room = "r1"
  /\ ret["p1"].st = "ok" /\ Len(calls["p1"]) = 2
  /\ members["r1"] = <<"c1", "c2">>
  /\ contactReady["c1"] /\ contactReady["c2"]

\* ready(false) returned at once on a ready room with a member not ready
C14_WitnessEarly ==
  /\ pc["p1"] = "done" /\ op["p1"].name = "ready" /\ op["p1"].room = "r1"
  /\ ret["p1"].st = "ok" /\ calls["p1"] = <<>>
  /\ IsReady("r1") /\ ~contactReady["c2"]

\* a member's ready() failed after another member's succeeded, and the
\* room's ready() failed
C14_WitnessFails ==
  /\ pc["p1"] = "done" /\ op["p1"].name \in ReadyNames /\ op["p1"].room = "r1"
  /\ ret["p1"].st = "err" /\ ret["p1"].err = "contactReady"
  /\ contactReady["c1"] # contactReady["c2"]


\* the provider calls of a forced resync of room id that nothing fails in
ForcedCalls(id) ==
  << Call("roomPayloadDirty", id, <<>>, "", ""),
     Call("roomPayload", id, <<>>, "", ""),
     Call("roomMemberList", id, <<>>, "", "") >>

\* a non-empty prefix of a sequence
IsPrefix(s, t) ==
  /\ Len(s) >= 1 /\ Len(s) <= Len(t)
  /\ \A i \in 1..Len(s) : s[i] = t[i]

\* C15: every ready(true), sync() and refresh(), whatever the room's
\* readiness, calls the provider's invalidation for the room's id first and
\* the fetch only when the invalidation has completed, so that its provider
\* calls are a prefix of invalidate, fetch, member lookup; sync() and
\* refresh() are forced and issue the calls of ready(true); ready(false) on
\* a ready room returns at once and issues no provider call.
C15_ForcedResyncOrder ==
  /\ [](\A p \in Procs, id \in RoomIds :
          (task[p][id].pc # "none" /\ task[p][id].dirty) =>
            /\ IsPrefix(task[p][id].log, ForcedCalls(id))
            /\ task[p][id].pc = "dirty" => Len(task[p][id].log) = 1
            /\ task[p][id].pc = "payload" => Len(task[p][id].log) = 2
            /\ task[p][id].pc \in {"members", "contacts"} => Len(task[p][id].log) = 3)
  /\ [][\A p \in Procs :
          /\ (pc[p] = "idle" /\ pc'[p] # "idle" /\ op'[p].name \in ReadyNames) =>
               IF pc'[p] = "done"
                 THEN /\ op'[p].name = "ready" /\ IsReady(op'[p].room)
                      /\ ret'[p] = Ok /\ calls'[p] = <<>>
                      /\ task' = task /\ cache' = cache
                 ELSE LET t == task'[p][op'[p].room] IN
                      /\ op'[p].name \in {"sync", "refresh"} => t.dirty
                      /\ t.dirty => t.log = <<ForcedCalls(op'[p].room)[1]>>
                      /\ ~t.dirty => ~IsReady(op'[p].room)
          /\ (ReadyEnds(p) /\ pc[p] = "ready" /\ ReadyTask(p).dirty) =>
               IsPrefix(calls'[p], ForcedCalls(op'[p].room))]_vars

\* refresh() invalidated and then fetched; the fetch failed
C15_Witness ==
  /\ pc["p1"] = "done" /\ op["p1"].name = "refresh"
  /\ calls["p1"] = SubSeq(ForcedCalls(op["p1"].room), 1, 2)
  /\ ret["p1"].st = "err" /\ ret["p1"].err = "roomPayload"

\* sync() whose invalidation failed issued no fetch
C15_WitnessNoFetch ==
  /\ pc["p2"] = "done" /\ op["p2"].name = "sync"
  /\ calls["p2"] = SubSeq(ForcedCalls(op["p2"].room), 1, 1)
  /\ ret["p2"].st = "err"

\* ready(false) on a ready room issued nothing
C15_WitnessReady ==
  /\ pc["p1"] = "done" /\ op["p1"].name = "ready" /\ calls["p1"] = <<>>
  /\ ret["p1"] = Ok /\ IsReady(op["p1"].room)

====
